---- MODULE Spec2Model ----
(***************************************************************************)
(* Local persistence and synchronisation core of ClaudeEditor:             *)
(*   - SnapshotManager   (lib/storage/snapshots.ts)                        *)
(*   - offline queue     (public/service-worker.js, useOfflineDetection)   *)
(*   - ClaudeAPI cache   (lib/claude/api.ts)                               *)
(*   - editor page       (app/editor page, ErrorBoundary, SnapshotPanel)   *)
(* Each component has its own specifications (SnapSpec, BundleSpec,        *)
(* EditorSpec, QueueSpec, QueueLiveSpec, PassSpec, CacheSpec, ChatSpec)    *)
(* over the shared variable tuple.                                         *)
(***************************************************************************)
EXTENDS Integers, Sequences, FiniteSets, TLC

VARIABLES
    snapshots,     \* the 'snapshots' object store: a set of records, unique id
    usedIds,       \* every id nanoid has handed out so far
    now,           \* the wall clock read by new Date()
    pre,           \* the object store as it was when the last operation began
    lastOp,        \* the last Snapshot Manager operation and its outcome
    opCount,       \* number of operations performed after the initial fill
    ticks,         \* number of clock ticks after the initial fill
    fill,          \* the initial fill still to run: kind and number of saves, id order,
                   \* and whether the code is edited between the saves
    freshStore,    \* the object store of a second manager, empty until a bundle is imported
    queueStore,    \* the 'offline_queue' object store: a set of items, unique id
    swClock,       \* the clock read by Date.now() in the service worker
    failed,        \* requests whose fetch has failed and that are not admitted yet
    reqCount,      \* number of /api/claude requests the page has sent
    replayed,      \* queued requests a replay pass has sent to the network
    qpre,          \* the queue store as it was when the last queue operation began
    lastQ,         \* the last queue operation and its outcome
    qOps,          \* number of queue operations after the initial fill
    qTicks,        \* number of service-worker clock ticks after the initial fill
    qFill,         \* admissions of the initial fill still to run
    memoryCache,   \* ClaudeAPI.memoryCache: the Map's entries in insertion order
    persistentDb,  \* the 'responses' object store of the ClaudeCache database
    dbState,       \* "opening", "open" (persistentCache set), "failed" (null) or
                   \* "closed" (persistentCache set, its connection closed by the browser)
    dbFaulty,      \* the persistent store fails its reads and writes
    totalRequests, \* ClaudeAPI.totalRequests
    cacheHits,     \* ClaudeAPI.cacheHits
    netCalls,      \* number of fetch('/api/claude') calls made by sendMessage
    lastC,         \* the last cache operation and its outcome
    prevC,         \* the cache operation before the last one
    cOps,          \* number of cache operations after the initial fill
    cFill,         \* sendMessage calls of the initial fill still to run
    editorCode,    \* the editor's 'code' state
    autosave,      \* localStorage item 'claudeeditor-autosave'
    crashBackup,   \* localStorage item 'claudeeditor-backup-after-crash'
    saveTimer,     \* the timer of the auto-save effect is armed
    page,          \* "running", or "crashed" once the error boundary shows its fallback
    lastE,         \* the last editor event and its outcome
    eOps,          \* number of editor events after the initial fill
    passes         \* the replay passes of the worker, each with its position

snapVars == <<snapshots, usedIds, now, pre, lastOp, opCount, ticks, fill, freshStore>>

queueVars == <<queueStore, swClock, failed, reqCount, replayed, qpre, lastQ,
               qOps, qTicks, qFill>>

cacheVars == <<memoryCache, persistentDb, dbState, dbFaulty, totalRequests,
               cacheHits, netCalls, lastC, prevC, cOps, cFill>>

editorVars == <<editorCode, autosave, crashBackup, saveTimer, page, lastE, eOps>>

passVars == <<passes>>

vars == <<snapVars, queueVars, cacheVars, editorVars, passVars>>

(***************************************************************************)
(* Bounds                                                                  *)
(***************************************************************************)
MaxOps == 2          \* operations explored after the initial fill
MaxBundleOps == 1    \* of which the import or export of a bundle comes within the first
MaxTicks == 1        \* clock ticks explored after the initial fill
MaxQueueOps == 3     \* queue operations explored after the initial fill
MaxQueueTicks == 2   \* service-worker clock ticks explored after the initial fill
MaxInFlight == 2     \* requests that may wait for admission at the same time
MaxCacheOps == 2     \* cache operations explored after the initial fill
MaxEditorOps == 3    \* editor events explored after the initial fill
MaxPasses == 2       \* replay passes that may run at the same time

(***************************************************************************)
(* Snapshot Manager                                                        *)
(***************************************************************************)
maxSnapshots == 50
maxAutoSaves == 10

Statuses == {"working", "broken", "testing"}

NoSnapshot == [id |-> 0]

\* Array.prototype.filter over a sequence
RECURSIVE FilterSeq(_, _)
FilterSeq(seq, keep) ==
    IF seq = <<>> THEN <<>>
    ELSE IF Head(seq) \in keep THEN <<Head(seq)>> \o FilterSeq(Tail(seq), keep)
         ELSE FilterSeq(Tail(seq), keep)

\* Array.prototype.slice(from): the elements after the first 'from'
Slice(seq, from) ==
    IF Len(seq) > from THEN SubSeq(seq, from + 1, Len(seq)) ELSE <<>>

\* A Map is kept as the sequence of its [key, value] entries in insertion
\* order.  Map.prototype.set: a key already present keeps its position and
\* takes the new value.
FilesSet(map, pair) ==
    IF \E i \in 1..Len(map) : map[i][1] = pair[1]
    THEN [i \in 1..Len(map) |-> IF map[i][1] = pair[1] THEN pair ELSE map[i]]
    ELSE Append(map, pair)

\* new Map(entries) for an array of [key, value] pairs
RECURSIVE NewMapFrom(_, _)
NewMapFrom(map, entries) ==
    IF entries = <<>> THEN map
    ELSE NewMapFrom(FilesSet(map, Head(entries)), Tail(entries))

NewMap(entries) == NewMapFrom(<<>>, entries)

\* Array.from(map.entries()): the array of the [key, value] pairs
MapEntries(map) == [i \in 1..Len(map) |-> <<map[i][1], map[i][2]>>]

\* a stored record as the read operations hand it out: files: new Map(s.files)
ReadRecord(s) == [s EXCEPT !.files = NewMap(@)]

\* store.getAll() yields the records in primary-key order; the stable sort
\* "newest first" then orders by timestamp descending, ties by ascending id.
NewestFirst(a, b) ==
    \/ a.timestamp > b.timestamp
    \/ a.timestamp = b.timestamp /\ a.id < b.id

SortNewestFirst(S) ==
    LET rank == [s \in S |-> 1 + Cardinality({t \in S : NewestFirst(t, s)})]
    IN  [i \in 1..Cardinality(S) |-> CHOOSE s \in S : rank[s] = i]

getAllSnapshots(store) == SortNewestFirst({ReadRecord(s) : s \in store})

\* a delete that keeps the record and marks it broken
deleteSnapshotOp_marksBroken(store, id) ==
    {IF s.id = id THEN [s EXCEPT !.status = "broken"] ELSE s : s \in store}

\* store.delete(id): no error when the id is absent
deleteSnapshotOp(store, id) == {s \in store : s.id # id}

RECURSIVE DeleteEach(_, _)
DeleteEach(store, toDelete) ==
    IF toDelete = <<>> THEN store
    ELSE DeleteEach(deleteSnapshotOp(store, Head(toDelete).id), Tail(toDelete))

cleanupAutoSaves(store) ==
    LET allSnapshots == getAllSnapshots(store)
        autoSaves == FilterSeq(allSnapshots,
                               {ReadRecord(s) : s \in {r \in store : r.autoSave}})
    IN  IF Len(autoSaves) > maxAutoSaves
        THEN DeleteEach(store, Slice(autoSaves, maxAutoSaves))
        ELSE store

cleanupOldSnapshots(store) ==
    LET allSnapshots == getAllSnapshots(store)
        nonMilestones == FilterSeq(allSnapshots,
                                   {ReadRecord(s) : s \in {r \in store : ~r.isMilestone}})
    IN  IF Len(nonMilestones) > maxSnapshots
        THEN DeleteEach(store, Slice(nonMilestones, maxSnapshots))
        ELSE store

\* the store after saveSnapshot(draft) when nanoid returns 'id'
saveSnapshotOp(store, draft, id) ==
    LET newSnapshot == [id |-> id,
                        timestamp |-> draft.timestamp,
                        status |-> draft.status,
                        isMilestone |-> draft.isMilestone,
                        autoSave |-> draft.autoSave,
                        label |-> draft.label,
                        code |-> draft.code,
                        files |-> MapEntries(draft.files)]
        afterAuto == IF newSnapshot.autoSave THEN cleanupAutoSaves(store) ELSE store
        afterOld == cleanupOldSnapshots(afterAuto)
    IN  afterOld \cup {newSnapshot}

\* getSnapshot that falls back to the newest record when the id is unknown
getSnapshot_newestWhenMissing(store, id) ==
    IF \E s \in store : s.id = id
    THEN ReadRecord(CHOOSE s \in store : s.id = id)
    ELSE IF store = {} THEN NoSnapshot ELSE getAllSnapshots(store)[1]

getSnapshot(store, id) ==
    IF \E s \in store : s.id = id
    THEN ReadRecord(CHOOSE s \in store : s.id = id)
    ELSE NoSnapshot

\* a getLastWorkingSnapshot that forgets the status index
getLastWorkingSnapshot_anyStatus(store) ==
    LET all == SortNewestFirst(store)
    IN  IF Len(all) > 0 THEN ReadRecord(all[1]) ELSE NoSnapshot

getLastWorkingSnapshot(store) ==
    LET workingSnapshots == SortNewestFirst({s \in store : s.status = "working"})
    IN  IF Len(workingSnapshots) > 0 THEN ReadRecord(workingSnapshots[1]) ELSE NoSnapshot

\* a restore point that keeps the status of the restore target
restoreDraft_targetStatus(snapshot, t) ==
    [timestamp |-> t, status |-> snapshot.status,
     isMilestone |-> FALSE, autoSave |-> FALSE,
     label |-> "Before restore to: " \o snapshot.label, code |-> snapshot.code, files |-> snapshot.files]

\* the draft restoreSnapshot saves before it returns the target
restoreDraft(snapshot, t) ==
    [timestamp |-> t, status |-> "testing", isMilestone |-> FALSE, autoSave |-> FALSE,
     label |-> "Before restore to: " \o snapshot.label, code |-> snapshot.code, files |-> snapshot.files]

(***************************************************************************)
(* Snapshot Manager: reachable initial stores and the environment          *)
(***************************************************************************)
\* files: new Map([['page.tsx', code]]) of the editor's saves
EditorFiles(code) == NewMap(<< <<"page.tsx", code>> >>)

\* The session before the explored operations: fill.n saves of one kind, one
\* per clock reading, each through saveSnapshot.
FillDraft(f, t) ==
    [timestamp |-> t, status |-> "working",
     isMilestone |-> f.isMilestone, autoSave |-> f.autoSave,
     label |-> "Auto-save",
     code |-> IF f.edits /\ f.n % 2 = 1 THEN "v2" ELSE "v1",
     files |-> EditorFiles(IF f.edits /\ f.n % 2 = 1 THEN "v2" ELSE "v1")]

FillKinds ==
    {[n |-> 0, isMilestone |-> FALSE, autoSave |-> FALSE],
     [n |-> maxSnapshots, isMilestone |-> FALSE, autoSave |-> FALSE],
     [n |-> maxAutoSaves, isMilestone |-> FALSE, autoSave |-> TRUE],
     [n |-> maxAutoSaves, isMilestone |-> TRUE, autoSave |-> TRUE]}

\* nanoid: an id never handed out before.  Primary-key order of the ids
\* decides ties between equal timestamps; two runs of the generator are
\* explored, one whose ids ascend and one whose ids descend in key order.
IdOrders == {"ascending", "descending"}

NextId ==
    IF fill.ids = "ascending"
    THEN 1 + Cardinality(usedIds)
    ELSE maxSnapshots + MaxOps - Cardinality(usedIds)

OldTimestamp == 0

Draft(t, st, ms, au) ==
    [timestamp |-> t, status |-> st, isMilestone |-> ms, autoSave |-> au,
     label |-> IF ms THEN "Milestone" ELSE "Auto-save",
     code |-> IF st = "working" THEN "v1" ELSE "v2",
     files |-> EditorFiles(IF st = "working" THEN "v1" ELSE "v2")]

\* the drafts handed to saveSnapshot: the editor's quick save and milestone
\* save, a save of broken code, an auto-save, and a record of an imported
\* bundle (which carries its own, old, timestamp)
Drafts ==
    {Draft(now, "working", FALSE, FALSE),
     Draft(now, "working", TRUE, FALSE),
     Draft(now, "broken", FALSE, FALSE),
     Draft(now, "working", FALSE, TRUE),
     Draft(OldTimestamp, "testing", FALSE, FALSE)}

StoredIds == {s.id : s \in snapshots}

MissingId == 0

\* the ids the user picks in the snapshot panel: the newest and the oldest
\* stored snapshot, and one id that is not in the store
TargetIds ==
    LET all == getAllSnapshots(snapshots)
    IN  {MissingId} \cup (IF all = <<>> THEN {} ELSE {all[1].id, all[Len(all)].id})

\* localStorage.getItem of a key that is not set
NoItem == [absent |-> TRUE]

INITIAL_CODE == "v0"

\* the editor page just mounted: the auto-save effect has armed its timer
EditorIdle ==
    /\ editorCode = INITIAL_CODE
    /\ autosave = NoItem
    /\ crashBackup = NoItem
    /\ saveTimer = TRUE
    /\ page = "running"
    /\ lastE = [op |-> "init"]
    /\ eOps = 0

\* a worker in which no replay pass was started
PassIdle == passes = [p \in 1..MaxPasses |-> [pc |-> "idle"]]

\* the offline queue of a session that never uses it
QueueIdle ==
    /\ queueStore = {}
    /\ swClock = 0
    /\ failed = {}
    /\ reqCount = 0
    /\ replayed = <<>>
    /\ qpre = {}
    /\ lastQ = [op |-> "init"]
    /\ qOps = 0
    /\ qTicks = 0
    /\ qFill = 0

\* the response cache of a session that never uses it
CacheIdle ==
    /\ memoryCache = <<>>
    /\ persistentDb = {}
    /\ dbState = "opening"
    /\ dbFaulty = FALSE
    /\ totalRequests = 0
    /\ cacheHits = 0
    /\ netCalls = 0
    /\ lastC = [op |-> "init"]
    /\ prevC = [op |-> "init"]
    /\ cOps = 0
    /\ cFill = 0

SnapInit ==
    /\ snapshots = {}
    /\ usedIds = {}
    /\ now = 0
    /\ pre = {}
    /\ lastOp = [op |-> "init"]
    /\ opCount = 0
    /\ ticks = 0
    /\ freshStore = {}
    /\ QueueIdle
    /\ CacheIdle
    /\ EditorIdle
    /\ PassIdle
    /\ fill \in {[n |-> k.n, isMilestone |-> k.isMilestone, autoSave |-> k.autoSave,
                 ids |-> o, edits |-> FALSE] : k \in FillKinds, o \in IdOrders}

fillSave ==
    /\ UNCHANGED <<queueVars, cacheVars, editorVars, passVars, freshStore>>
    /\ fill.n > 0
    /\ LET id == NextId
           draft == FillDraft(fill, now + 1)
       IN  /\ snapshots' = saveSnapshotOp(snapshots, draft, id)
           /\ usedIds' = usedIds \cup {id}
           /\ lastOp' = [op |-> "saveSnapshot", draft |-> draft, id |-> id]
    /\ pre' = snapshots
    /\ now' = now + 1
    /\ fill' = [fill EXCEPT !.n = @ - 1]
    /\ UNCHANGED <<opCount, ticks>>

Tick ==
    /\ UNCHANGED <<queueVars, cacheVars, editorVars, passVars, freshStore>>
    /\ fill.n = 0
    /\ ticks < MaxTicks
    /\ now' = now + 1
    /\ ticks' = ticks + 1
    /\ UNCHANGED <<snapshots, usedIds, pre, lastOp, opCount, fill>>

saveSnapshot ==
    /\ UNCHANGED <<queueVars, cacheVars, editorVars, passVars, freshStore>>
    /\ fill.n = 0
    /\ opCount < MaxOps
    /\ \E draft \in Drafts :
        /\ snapshots' = saveSnapshotOp(snapshots, draft, NextId)
        /\ usedIds' = usedIds \cup {NextId}
        /\ lastOp' = [op |-> "saveSnapshot", draft |-> draft, id |-> NextId]
    /\ pre' = snapshots
    /\ opCount' = opCount + 1
    /\ UNCHANGED <<now, ticks, fill>>

deleteSnapshot ==
    /\ UNCHANGED <<queueVars, cacheVars, editorVars, passVars, freshStore>>
    /\ fill.n = 0
    /\ opCount < MaxOps
    /\ \E id \in TargetIds :
        /\ snapshots' = deleteSnapshotOp(snapshots, id)
        /\ lastOp' = [op |-> "deleteSnapshot", id |-> id]
    /\ pre' = snapshots
    /\ opCount' = opCount + 1
    /\ UNCHANGED <<usedIds, now, ticks, fill>>

restoreSnapshot ==
    /\ UNCHANGED <<queueVars, cacheVars, editorVars, passVars, freshStore>>
    /\ fill.n = 0
    /\ opCount < MaxOps
    /\ \E id \in TargetIds :
        LET snapshot == getSnapshot(snapshots, id)
            newId == NextId
        IN  IF snapshot = NoSnapshot
            THEN /\ lastOp' = [op |-> "restoreSnapshot", id |-> id,
                               error |-> "Snapshot not found", result |-> NoSnapshot]
                 /\ UNCHANGED <<snapshots, usedIds>>
            ELSE /\ snapshots' = saveSnapshotOp(snapshots, restoreDraft(snapshot, now), newId)
                 /\ usedIds' = usedIds \cup {newId}
                 /\ lastOp' = [op |-> "restoreSnapshot", id |-> id,
                               error |-> "", result |-> snapshot, backupId |-> newId]
    /\ pre' = snapshots
    /\ opCount' = opCount + 1
    /\ UNCHANGED <<now, ticks, fill>>

panicRestore ==
    /\ UNCHANGED <<queueVars, cacheVars, editorVars, passVars, freshStore>>
    /\ fill.n = 0
    /\ opCount < MaxOps
    /\ lastOp' = [op |-> "getLastWorkingSnapshot",
                  result |-> getLastWorkingSnapshot(snapshots)]
    /\ pre' = snapshots
    /\ opCount' = opCount + 1
    /\ UNCHANGED <<snapshots, usedIds, now, ticks, fill>>

SnapNext ==
    \/ fillSave
    \/ Tick
    \/ saveSnapshot
    \/ deleteSnapshot
    \/ restoreSnapshot
    \/ panicRestore

SnapSpec == SnapInit /\ [][SnapNext]_vars

(***************************************************************************)
(* Export and import of snapshot bundles                                   *)
(***************************************************************************)
\* JSON values: an array, a number, a string that is not an array, null
JsonArray(items) == [array |-> items]
JsonNumber(n) == [number |-> n]
JsonString(text) == [string |-> text]
JsonNull == [null |-> TRUE]

IsJsonArray(value) == "array" \in DOMAIN value
IsJsonNull(value) == "null" \in DOMAIN value

\* Date.prototype.toJSON: the instant as an ISO 8601 string, to the millisecond
ToIsoString(date) == [iso |-> date]

\* new Date(isoString): the instant the string denotes
NewDate(value) == value.iso

\* JSON.stringify of a value, and a text that is not JSON
JsonStringify(value) == [text |-> value]
NotJson == [garbage |-> TRUE]

JsonParses(jsonData) == "text" \in DOMAIN jsonData
JsonParse(jsonData) == jsonData.text

\* an export that writes every snapshot with an empty files array
ExportEntry_withoutFiles(s) ==
    [id |-> s.id,
     timestamp |-> ToIsoString(s.timestamp),
     status |-> s.status,
     isMilestone |-> s.isMilestone,
     autoSave |-> s.autoSave,
     label |-> s.label,
     code |-> s.code,
     files |-> JsonArray(<<>>)]

\* one element of exportData.snapshots as JSON.stringify writes it: the
\* spread of the snapshot with files as the array of its entries, the Date
\* through toJSON
ExportEntry(s) ==
    [id |-> s.id,
     timestamp |-> ToIsoString(s.timestamp),
     status |-> s.status,
     isMilestone |-> s.isMilestone,
     autoSave |-> s.autoSave,
     label |-> s.label,
     code |-> s.code,
     files |-> JsonArray(MapEntries(s.files))]

exportSnapshotsOp(store, t) ==
    LET all == getAllSnapshots(store)
    IN  JsonStringify([version |-> "1.0",
                       exportDate |-> ToIsoString(t),
                       snapshots |-> JsonArray([i \in 1..Len(all) |-> ExportEntry(all[i])])])

\* the entry after the two conversions of the import loop, as handed to
\* saveSnapshot (which replaces the id)
ImportDraft(snapshot) ==
    [timestamp |-> NewDate(snapshot.timestamp),
     status |-> snapshot.status,
     isMilestone |-> snapshot.isMilestone,
     autoSave |-> snapshot.autoSave,
     label |-> snapshot.label,
     code |-> snapshot.code,
     files |-> NewMap(snapshot.files.array)]

\* the id nanoid hands out after the ids in used
NewId(used, order) ==
    IF order = "ascending"
    THEN 1 + Cardinality(used)
    ELSE maxSnapshots + MaxOps - Cardinality(used)

\* one pass of the body of the import loop: assigning snapshot.files on null
\* and new Map over a value that is not iterable throw a TypeError, which
\* leaves the loop with the entries saved so far still in the store
ImportStep(acc, snapshot, order) ==
    LET id == NewId(acc.used, order)
    IN  IF IsJsonNull(snapshot)
        THEN [acc EXCEPT !.error = "TypeError"]
        ELSE IF ~IsJsonArray(snapshot.files)
        THEN [acc EXCEPT !.error = "TypeError"]
        ELSE [store |-> saveSnapshotOp(acc.store, ImportDraft(snapshot), id),
              used |-> acc.used \cup {id},
              imported |-> acc.imported + 1,
              error |-> ""]

\* the for loop of importSnapshots from entry k on; each pass works on the
\* outcome of the pass before it
RECURSIVE ImportLoop(_, _, _, _)
ImportLoop(acc, entries, k, order) ==
    IF acc.error # "" \/ k > Len(entries)
    THEN acc
    ELSE CHOOSE r \in {ImportLoop(next, entries, k + 1, order) :
                          next \in {ImportStep(a, entries[k], order) : a \in {acc}}} : TRUE

importSnapshotsOp(store, used, jsonData, order) ==
    LET start == [store |-> store, used |-> used, imported |-> 0, error |-> ""]
    IN  IF ~JsonParses(jsonData)
        THEN [start EXCEPT !.error = "SyntaxError"]
        ELSE LET importData == JsonParse(jsonData)
             IN  IF "snapshots" \notin DOMAIN importData
                 THEN [start EXCEPT !.error = "Invalid import data format"]
                 ELSE IF ~IsJsonArray(importData.snapshots)
                 THEN [start EXCEPT !.error = "Invalid import data format"]
                 ELSE ImportLoop(start, importData.snapshots.array, 1, order)

\* an entry of a bundle written by an earlier export: an old auto-save
BundleEntry ==
    ExportEntry([id |-> MissingId, timestamp |-> OldTimestamp, status |-> "working",
                 isMilestone |-> FALSE, autoSave |-> TRUE, label |-> "Auto-save",
                 code |-> "v2", files |-> EditorFiles("v2")])

BundleOf(entries) ==
    JsonStringify([version |-> "1.0", exportDate |-> ToIsoString(OldTimestamp),
                   snapshots |-> JsonArray(entries)])

\* the files the user picks in the import dialog
BundleNames ==
    {"notJson", "noSnapshots", "snapshotsNotArray", "oneEntry", "entryThenNull",
     "entryThenBadFiles"}

Bundle(name) ==
    CASE name = "notJson" -> NotJson
      [] name = "noSnapshots" -> JsonStringify([version |-> "1.0"])
      [] name = "snapshotsNotArray" ->
             JsonStringify([version |-> "1.0", snapshots |-> JsonString("none")])
      [] name = "oneEntry" -> BundleOf(<<BundleEntry>>)
      [] name = "entryThenNull" -> BundleOf(<<BundleEntry, JsonNull>>)
      [] name = "entryThenBadFiles" ->
             BundleOf(<<BundleEntry, [BundleEntry EXCEPT !.files = JsonNumber(5)]>>)

\* the fills of the sessions whose bundles are explored: no save, and the
\* quick saves and auto-saves that leave the store one above each cap
BundleFillKinds ==
    {[n |-> 0, isMilestone |-> FALSE, autoSave |-> FALSE],
     [n |-> maxSnapshots + 1, isMilestone |-> FALSE, autoSave |-> FALSE],
     [n |-> maxAutoSaves + 1, isMilestone |-> FALSE, autoSave |-> TRUE]}

BundleInit ==
    /\ snapshots = {}
    /\ usedIds = {}
    /\ now = 0
    /\ pre = {}
    /\ lastOp = [op |-> "init"]
    /\ opCount = 0
    /\ ticks = 0
    /\ freshStore = {}
    /\ QueueIdle
    /\ CacheIdle
    /\ EditorIdle
    /\ PassIdle
    /\ fill \in {[n |-> k.n, isMilestone |-> k.isMilestone, autoSave |-> k.autoSave,
                 ids |-> "ascending", edits |-> TRUE] : k \in BundleFillKinds}

importSnapshots ==
    /\ UNCHANGED <<queueVars, cacheVars, editorVars, passVars, freshStore>>
    /\ fill.n = 0
    /\ opCount < MaxBundleOps
    /\ \E name \in BundleNames :
       \E jsonData \in {Bundle(name)} :
       \E r \in {importSnapshotsOp(snapshots, usedIds, jsonData, fill.ids)} :
            /\ snapshots' = r.store
            /\ usedIds' = r.used
            /\ lastOp' = [op |-> "importSnapshots", bundle |-> name,
                          error |-> r.error, imported |-> r.imported,
                          newIds |-> r.used \ usedIds]
    /\ pre' = snapshots
    /\ opCount' = opCount + 1
    /\ UNCHANGED <<now, ticks, fill>>

\* exportSnapshots of this store, then importSnapshots of the text by a
\* manager whose store is empty
exportThenImport ==
    /\ UNCHANGED <<queueVars, cacheVars, editorVars, passVars>>
    /\ fill.n = 0
    /\ opCount < MaxBundleOps
    /\ \E jsonData \in {exportSnapshotsOp(snapshots, now)} :
       \E r \in {importSnapshotsOp({}, usedIds, jsonData, fill.ids)} :
           /\ freshStore' = r.store
           /\ usedIds' = r.used
           /\ lastOp' = [op |-> "exportThenImport", error |-> r.error,
                         imported |-> r.imported, newIds |-> r.used \ usedIds]
    /\ pre' = snapshots
    /\ opCount' = opCount + 1
    /\ UNCHANGED <<snapshots, now, ticks, fill>>

BundleNext ==
    \/ fillSave
    \/ saveSnapshot
    \/ deleteSnapshot
    \/ restoreSnapshot
    \/ importSnapshots
    \/ exportThenImport

BundleSpec == BundleInit /\ [][BundleNext]_vars

(***************************************************************************)
(* The editor page: live code, auto-save to localStorage, crash recovery   *)
(***************************************************************************)
\* the store after a saveSnapshot(draft) whose store.add fires onerror: the
\* clean-up transactions have completed before the add is attempted
saveSnapshotRejected(store, draft) ==
    cleanupOldSnapshots(IF draft.autoSave THEN cleanupAutoSaves(store) ELSE store)

\* the texts the user types
EditorTexts == {"v1", "v3"}

\* the draft handleQuickSave hands to saveSnapshot
QuickSaveDraft(code, t) ==
    [timestamp |-> t, status |-> "working", isMilestone |-> FALSE, autoSave |-> FALSE,
     label |-> "Auto-save", code |-> code, files |-> EditorFiles(code)]

\* the item saveToLocal writes
AutosaveItem(code) == JsonStringify([code |-> code, file |-> "page.tsx"])

EditorFillKinds ==
    {[n |-> 0, isMilestone |-> FALSE, autoSave |-> FALSE],
     [n |-> maxSnapshots + 1, isMilestone |-> FALSE, autoSave |-> FALSE]}

EditorInit ==
    /\ snapshots = {}
    /\ usedIds = {}
    /\ now = 0
    /\ pre = {}
    /\ lastOp = [op |-> "init"]
    /\ opCount = 0
    /\ ticks = 0
    /\ freshStore = {}
    /\ QueueIdle
    /\ CacheIdle
    /\ EditorIdle
    /\ PassIdle
    /\ fill \in {[n |-> k.n, isMilestone |-> k.isMilestone, autoSave |-> k.autoSave,
                 ids |-> "ascending", edits |-> TRUE] : k \in EditorFillKinds}

\* handleEditorChange(value): setCode; the auto-save effect clears its timer
\* and arms a new one
handleEditorChange ==
    /\ UNCHANGED <<snapVars, queueVars, cacheVars, passVars>>
    /\ fill.n = 0
    /\ page = "running"
    /\ eOps < MaxEditorOps
    /\ \E value \in EditorTexts \ {editorCode} :
        /\ editorCode' = value
        /\ lastE' = [op |-> "handleEditorChange", value |-> value]
    /\ saveTimer' = TRUE
    /\ eOps' = eOps + 1
    /\ UNCHANGED <<autosave, crashBackup, page>>

\* the timer of the auto-save effect fires one second after the last change
saveToLocal ==
    /\ UNCHANGED <<snapVars, queueVars, cacheVars, passVars>>
    /\ saveTimer
    /\ autosave' = AutosaveItem(editorCode)
    /\ saveTimer' = FALSE
    /\ lastE' = [op |-> "saveToLocal"]
    /\ UNCHANGED <<editorCode, crashBackup, page, eOps>>

\* handleQuickSave: saveSnapshot of the live code; when the add is rejected
\* the catch block reports 'Failed to save'
handleQuickSave ==
    /\ UNCHANGED <<queueVars, cacheVars, passVars, freshStore>>
    /\ fill.n = 0
    /\ page = "running"
    /\ eOps < MaxEditorOps
    /\ \E addOk \in BOOLEAN :
       \E draft \in {QuickSaveDraft(editorCode, now + 1)} :
        /\ snapshots' = IF addOk THEN saveSnapshotOp(snapshots, draft, NextId)
                        ELSE saveSnapshotRejected(snapshots, draft)
        /\ lastOp' = [op |-> "saveSnapshot", draft |-> draft, id |-> NextId]
        /\ lastE' = [op |-> "handleQuickSave", saved |-> addOk]
    /\ usedIds' = usedIds \cup {NextId}
    /\ pre' = snapshots
    /\ now' = now + 1
    /\ eOps' = eOps + 1
    /\ UNCHANGED <<opCount, ticks, fill>>
    /\ UNCHANGED <<editorCode, autosave, crashBackup, saveTimer, page>>

\* SnapshotPanel.handleRestore(snapshot): restoreSnapshot(snapshot.id), then
\* the 'restore-snapshot' event is dispatched; the editor page registers no
\* listener for it, so its code stays as it is
handleRestore ==
    /\ UNCHANGED <<queueVars, cacheVars, passVars, freshStore>>
    /\ fill.n = 0
    /\ page = "running"
    /\ eOps < MaxEditorOps
    /\ \E id \in TargetIds :
        LET snapshot == getSnapshot(snapshots, id)
            newId == NextId
        IN  IF snapshot = NoSnapshot
            THEN /\ lastOp' = [op |-> "restoreSnapshot", id |-> id,
                               error |-> "Snapshot not found", result |-> NoSnapshot]
                 /\ UNCHANGED <<snapshots, usedIds>>
            ELSE /\ snapshots' = saveSnapshotOp(snapshots, restoreDraft(snapshot, now + 1), newId)
                 /\ usedIds' = usedIds \cup {newId}
                 /\ lastOp' = [op |-> "restoreSnapshot", id |-> id,
                               error |-> "", result |-> snapshot, backupId |-> newId]
    /\ lastE' = [op |-> "handleRestore", code |-> editorCode,
                 files |-> EditorFiles(editorCode)]
    /\ pre' = snapshots
    /\ now' = now + 1
    /\ eOps' = eOps + 1
    /\ UNCHANGED <<opCount, ticks, fill>>
    /\ UNCHANGED <<editorCode, autosave, crashBackup, saveTimer, page>>

\* ErrorBoundary.componentDidCatch: the last auto-save, if there is one, is
\* copied to the crash backup; the fallback replaces the editor, whose
\* effect clean-up clears the timer
componentDidCatch ==
    /\ UNCHANGED <<snapVars, queueVars, cacheVars, passVars>>
    /\ fill.n = 0
    /\ page = "running"
    /\ eOps < MaxEditorOps
    /\ crashBackup' = IF autosave # NoItem THEN autosave ELSE crashBackup
    /\ page' = "crashed"
    /\ saveTimer' = FALSE
    /\ lastE' = [op |-> "componentDidCatch", code |-> editorCode]
    /\ eOps' = eOps + 1
    /\ UNCHANGED <<editorCode, autosave>>

\* the page is loaded (handleReset reloads it after a crash): code starts as
\* INITIAL_CODE, initialize awaits snapshotManager.init() and then runs
\* handleCrashRecovery, which asks the user and removes the backup whatever
\* the answer; when init() rejects, handleCrashRecovery is not reached
initialize ==
    /\ UNCHANGED <<snapVars, queueVars, cacheVars, passVars>>
    /\ fill.n = 0
    /\ eOps < MaxEditorOps
    /\ \E initOk \in BOOLEAN, shouldRestore \in BOOLEAN :
        LET offered == initOk /\ crashBackup # NoItem
        IN  /\ editorCode' = IF offered /\ shouldRestore
                             THEN JsonParse(crashBackup).code
                             ELSE INITIAL_CODE
            /\ crashBackup' = IF offered THEN NoItem ELSE crashBackup
            /\ lastE' = [op |-> "initialize", hadBackup |-> crashBackup # NoItem,
                         offered |-> offered, restored |-> offered /\ shouldRestore]
    /\ page' = "running"
    /\ saveTimer' = TRUE
    /\ eOps' = eOps + 1
    /\ UNCHANGED autosave

EditorNext ==
    \/ fillSave
    \/ handleEditorChange
    \/ saveToLocal
    \/ handleQuickSave
    \/ handleRestore
    \/ componentDidCatch
    \/ initialize

EditorSpec == EditorInit /\ [][EditorNext]_vars

(***************************************************************************)
(* Offline queue (service worker and foreground hook)                      *)
(***************************************************************************)
MAX_QUEUE_SIZE == 10

\* JavaScript values the queue code handles
JsNumber(n) == [t |-> "number", v |-> n]
JsUndefined == [t |-> "undefined"]
JsArray(items) == [kind |-> "Array", items |-> items]

\* items of a store in primary-key order
RECURSIVE KeyOrder(_)
KeyOrder(store) ==
    IF store = {} THEN <<>>
    ELSE LET first == CHOOSE i \in store : \A j \in store : i.id <= j.id
         IN  <<first>> \o KeyOrder(store \ {first})

\* a getAll whose result is awaited as a promise: the array of the items
storeGetAll_awaited(store) == JsArray(KeyOrder(store))

\* IDBObjectStore.getAll() returns an IDBRequest; the items are delivered to
\* its onsuccess handler as request.result
storeGetAll(store) == [kind |-> "IDBRequest", result |-> JsArray(KeyOrder(store))]

\* await of a value that is not a promise (an IDBRequest has no then method)
\* continues with the value itself
AwaitValue(v) == v

\* v.length: an Array has it, an IDBRequest does not
JsLength(v) == IF v.kind = "Array" THEN JsNumber(Len(v.items)) ELSE JsUndefined

\* x >= n and x === n for a number n: undefined compares false
JsGreaterEq(x, n) == x.t = "number" /\ x.v >= n
JsStrictEq(x, n) == x.t = "number" /\ x.v = n

\* for (const item of v) needs v[Symbol.iterator]
JsIterable(v) == v.kind = "Array"

HasKey(store, id) == \E i \in store : i.id = id

\* an admission that evicts the oldest item whether or not the queue is full
addToOfflineQueueOp_evictAlways(store, requestData, clock) ==
    LET afterEvict == IF store # {}
                      THEN {i \in store : i.id # KeyOrder(store)[1].id}
                      ELSE store
        item == [id |-> clock, data |-> requestData]
    IN  IF HasKey(afterEvict, item.id) THEN store ELSE afterEvict \cup {item}

\* the queue store after addToOfflineQueue(requestData) when Date.now() reads
\* 'clock'.  store.add of a key that is already present fails with a
\* ConstraintError, which aborts the transaction (the delete before it is
\* rolled back too); nothing awaits the request, so the catch block never
\* sees the failure.
addToOfflineQueueOp(store, requestData, clock) ==
    LET queue == AwaitValue(storeGetAll(store))
        afterEvict == IF JsGreaterEq(JsLength(queue), MAX_QUEUE_SIZE)
                      THEN {i \in store : i.id # queue.items[1].id}
                      ELSE store
        item == [id |-> clock, data |-> requestData]
    IN  IF HasKey(afterEvict, item.id) THEN store ELSE afterEvict \cup {item}

\* the message addToOfflineQueue posts to the clients
queueUpdatedMessage(store) ==
    LET queue == AwaitValue(storeGetAll(store))
        len == JsLength(queue)
    IN  [type |-> "OFFLINE_QUEUE_UPDATED",
         queueSize |-> IF len.t = "number"
                       THEN JsNumber(IF len.v + 1 < MAX_QUEUE_SIZE
                                     THEN len.v + 1 ELSE MAX_QUEUE_SIZE)
                       ELSE [t |-> "NaN"]]

\* one replay pass over the store: the requests sent, the store afterwards
\* and the error the outer catch block logs.  'failing' holds the ids of the
\* items whose fetch rejects or gets a response that is not ok.
processOfflineQueueOp(store, failing) ==
    LET queue == AwaitValue(storeGetAll(store))
    IN  IF JsStrictEq(JsLength(queue), 0)
        THEN [store |-> store, sent |-> <<>>, error |-> ""]
        ELSE IF ~JsIterable(queue)
        THEN [store |-> store, sent |-> <<>>,
              error |-> "TypeError: queue is not iterable"]
        ELSE [store |-> {i \in store : i.id \in failing},
              sent |-> [k \in 1..Len(queue.items) |-> queue.items[k].data],
              error |-> ""]

\* outcomes of the fetches of one pass: all succeed, all fail, only the oldest
\* item fails
ReplayOutcomes(store) ==
    LET ids == {i.id : i \in store}
    IN  {{}, ids, {id \in ids : \A j \in ids : id <= j}}

SnapIdle ==
    /\ snapshots = {}
    /\ usedIds = {}
    /\ now = 0
    /\ pre = {}
    /\ lastOp = [op |-> "init"]
    /\ opCount = 0
    /\ ticks = 0
    /\ fill = [n |-> 0]
    /\ freshStore = {}

QueueInit ==
    /\ SnapIdle
    /\ CacheIdle
    /\ EditorIdle
    /\ PassIdle
    /\ queueStore = {}
    /\ swClock = 0
    /\ failed = {}
    /\ reqCount = 0
    /\ replayed = <<>>
    /\ qpre = {}
    /\ lastQ = [op |-> "init"]
    /\ qOps = 0
    /\ qTicks = 0
    /\ qFill \in {0, MAX_QUEUE_SIZE}

\* the request descriptor handleApiRequest captures for request number n
RequestData(n, clock) == [req |-> n, timestamp |-> clock]

\* initial fill: a request fails and is admitted, one per clock reading
qFillAdmit ==
    /\ UNCHANGED <<snapVars, cacheVars, editorVars, passVars>>
    /\ qFill > 0
    /\ LET data == RequestData(reqCount + 1, swClock + 1)
       IN  /\ queueStore' = addToOfflineQueueOp(queueStore, data, swClock + 1)
           /\ lastQ' = [op |-> "addToOfflineQueue", data |-> data,
                        message |-> queueUpdatedMessage(queueStore),
                        response |-> [mode |-> "offline", queued |-> TRUE]]
    /\ swClock' = swClock + 1
    /\ reqCount' = reqCount + 1
    /\ qpre' = queueStore
    /\ qFill' = qFill - 1
    /\ UNCHANGED <<failed, replayed, qOps, qTicks>>

qTick ==
    /\ UNCHANGED <<snapVars, cacheVars, editorVars, passVars>>
    /\ qFill = 0
    /\ qTicks < MaxQueueTicks
    /\ swClock' = swClock + 1
    /\ qTicks' = qTicks + 1
    /\ UNCHANGED <<queueStore, failed, reqCount, replayed, qpre, lastQ, qOps, qFill>>

\* handleApiRequest, fetch rejects: the catch block reads the body and builds
\* the request descriptor
fetchFails ==
    /\ UNCHANGED <<snapVars, cacheVars, editorVars, passVars>>
    /\ qFill = 0
    /\ qOps < MaxQueueOps
    /\ Cardinality(failed) < MaxInFlight
    /\ failed' = failed \cup {RequestData(reqCount + 1, swClock)}
    /\ reqCount' = reqCount + 1
    /\ qOps' = qOps + 1
    /\ UNCHANGED <<queueStore, swClock, replayed, qpre, lastQ, qTicks, qFill>>

\* handleApiRequest, rest of the catch block: addToOfflineQueue and the
\* synthetic offline response
addToOfflineQueue ==
    /\ UNCHANGED <<snapVars, cacheVars, editorVars, passVars>>
    /\ \E data \in failed :
        /\ queueStore' = addToOfflineQueueOp(queueStore, data, swClock)
        /\ lastQ' = [op |-> "addToOfflineQueue", data |-> data,
                     message |-> queueUpdatedMessage(queueStore),
                     response |-> [mode |-> "offline", queued |-> TRUE]]
        /\ failed' = failed \ {data}
    /\ qpre' = queueStore
    /\ UNCHANGED <<swClock, reqCount, replayed, qOps, qTicks, qFill>>

\* a replay pass started by 'trigger'
ReplayPass(trigger, failing) ==
    LET pass == processOfflineQueueOp(queueStore, failing)
    IN  /\ queueStore' = pass.store
        /\ replayed' = replayed \o pass.sent
        /\ lastQ' = [op |-> "processOfflineQueue", trigger |-> trigger,
                     failing |-> failing, sent |-> pass.sent, error |-> pass.error]
        /\ qpre' = queueStore

\* handleApiRequest, fetch resolves: a response with ok = true starts a replay
\* pass; any response is returned to the page
fetchResolves ==
    /\ UNCHANGED <<snapVars, cacheVars, editorVars, passVars>>
    /\ qFill = 0
    /\ qOps < MaxQueueOps
    /\ \E responseOk \in BOOLEAN, failing \in ReplayOutcomes(queueStore) :
        IF responseOk
        THEN ReplayPass("fetch", failing)
        ELSE /\ lastQ' = [op |-> "handleApiRequest", responseOk |-> FALSE]
             /\ qpre' = queueStore
             /\ UNCHANGED <<queueStore, replayed>>
    /\ reqCount' = reqCount + 1
    /\ qOps' = qOps + 1
    /\ UNCHANGED <<swClock, failed, qTicks, qFill>>

\* 'sync' event with tag sync-offline-queue
syncEvent ==
    /\ UNCHANGED <<snapVars, cacheVars, editorVars, passVars>>
    /\ qFill = 0
    /\ qOps < MaxQueueOps
    /\ \E failing \in ReplayOutcomes(queueStore) : ReplayPass("sync", failing)
    /\ qOps' = qOps + 1
    /\ UNCHANGED <<swClock, failed, reqCount, qTicks, qFill>>

\* useOfflineDetection.clearQueue: store.clear()
clearQueue ==
    /\ UNCHANGED <<snapVars, cacheVars, editorVars, passVars>>
    /\ qFill = 0
    /\ qOps < MaxQueueOps
    /\ queueStore' = {}
    /\ lastQ' = [op |-> "clearQueue"]
    /\ qpre' = queueStore
    /\ qOps' = qOps + 1
    /\ UNCHANGED <<swClock, failed, reqCount, replayed, qTicks, qFill>>

\* the worker function the 'message' listener starts for a message of the
\* given type
messageListener(type) ==
    IF type = "SKIP_WAITING" THEN "skipWaiting"
    ELSE IF type = "CHECK_QUEUE" THEN "checkQueueStatus"
    ELSE "none"

\* useOfflineDetection.handleOnline (window 'online' event): with Background
\* Sync the tag sync-offline-queue is registered and the browser, being
\* online, fires the 'sync' event; without it the page posts MANUAL_SYNC to
\* the worker
handleOnline ==
    /\ UNCHANGED <<snapVars, cacheVars, editorVars, passVars>>
    /\ qFill = 0
    /\ qOps < MaxQueueOps
    /\ \E syncAvailable \in BOOLEAN, failing \in ReplayOutcomes(queueStore) :
        IF syncAvailable
        THEN ReplayPass("online", failing)
        ELSE /\ lastQ' = [op |-> "handleOnline", posted |-> "MANUAL_SYNC",
                          started |-> messageListener("MANUAL_SYNC")]
             /\ qpre' = queueStore
             /\ UNCHANGED <<queueStore, replayed>>
    /\ qOps' = qOps + 1
    /\ UNCHANGED <<swClock, failed, reqCount, qTicks, qFill>>

QueueNext ==
    \/ qFillAdmit
    \/ qTick
    \/ fetchFails
    \/ addToOfflineQueue
    \/ fetchResolves
    \/ syncEvent
    \/ handleOnline
    \/ clearQueue

QueueSpec == QueueInit /\ [][QueueNext]_vars

(***************************************************************************)
(* Offline queue: replay passes that run at the same time                  *)
(***************************************************************************)
\* what triggers a pass: the 'sync' event, or a foreground request that got
\* an ok response
PassTriggers == {"sync", "fetch"}

Running(p) == passes[p].pc = "iterate"

\* the items a pass got an ok response for
Delivered(p) == IF passes[p].pc = "idle" THEN {} ELSE passes[p].delivered

\* processOfflineQueue up to its first read: openDB, the transaction and
\* queue = await store.getAll()
passBegin ==
    /\ UNCHANGED <<snapVars, cacheVars, editorVars>>
    /\ qFill = 0
    /\ \E p \in 1..MaxPasses, trigger \in PassTriggers :
        /\ passes[p].pc = "idle"
        /\ \A q \in 1..(p - 1) : passes[q].pc # "idle"
        /\ passes' = [passes EXCEPT ![p] =
                         [pc |-> "iterate", trigger |-> trigger,
                          queue |-> AwaitValue(storeGetAll(queueStore)),
                          k |-> 1, delivered |-> {}, error |-> "",
                          read |-> {i.id : i \in queueStore},
                          overlapped |-> \E q \in 1..MaxPasses : Running(q)]]
    /\ UNCHANGED queueVars

\* processOfflineQueue from one await to the next: the length test, then the
\* for-of loop, one item per step (fetch, and store.delete when the response
\* is ok), then the end of the pass
passStep ==
    /\ UNCHANGED <<snapVars, cacheVars, editorVars>>
    /\ \E p \in 1..MaxPasses :
        /\ Running(p)
        /\ LET pass == passes[p]
               queue == pass.queue
           IN  IF JsStrictEq(JsLength(queue), 0)
               THEN /\ passes' = [passes EXCEPT ![p].pc = "done"]
                    /\ UNCHANGED <<queueStore, replayed>>
               ELSE IF ~JsIterable(queue)
               THEN /\ passes' = [passes EXCEPT
                                     ![p].pc = "done",
                                     ![p].error = "TypeError: queue is not iterable"]
                    /\ UNCHANGED <<queueStore, replayed>>
               ELSE IF pass.k > Len(queue.items)
               THEN /\ passes' = [passes EXCEPT ![p].pc = "done"]
                    /\ UNCHANGED <<queueStore, replayed>>
               ELSE \E responseOk \in BOOLEAN :
                    LET item == queue.items[pass.k]
                    IN  /\ replayed' = Append(replayed, item.data)
                        /\ queueStore' = IF responseOk
                                         THEN {i \in queueStore : i.id # item.id}
                                         ELSE queueStore
                        /\ passes' = [passes EXCEPT
                                         ![p].k = @ + 1,
                                         ![p].delivered =
                                             IF responseOk THEN @ \cup {item.data} ELSE @]
    /\ UNCHANGED <<swClock, failed, reqCount, qpre, lastQ, qOps, qTicks, qFill>>

PassNext ==
    \/ qFillAdmit
    \/ fetchFails
    \/ addToOfflineQueue
    \/ passBegin
    \/ passStep

PassSpec == QueueInit /\ [][PassNext]_vars

(***************************************************************************)
(* Response cache (ClaudeAPI): strings, JSON.stringify and the key hash    *)
(***************************************************************************)
maxMemoryCacheSize == 100
topCacheEntries == 20

\* A string is a sequence of one-character strings.
LowerCase ==
    <<"a", "b", "c", "d", "e", "f", "g", "h", "i", "j", "k", "l", "m", "n",
      "o", "p", "q", "r", "s", "t", "u", "v", "w", "x", "y", "z">>

DecimalDigits == <<"0", "1", "2", "3", "4", "5", "6", "7", "8", "9">>

\* String.prototype.charCodeAt for the characters that occur in a request
CharCode ==
    [c \in {LowerCase[i] : i \in 1..26} |-> 96 + CHOOSE i \in 1..26 : LowerCase[i] = c]
    @@ [c \in {DecimalDigits[i] : i \in 1..10} |->
            47 + CHOOSE i \in 1..10 : DecimalDigits[i] = c]
    @@ (" " :> 32) @@ ("\"" :> 34) @@ ("," :> 44) @@ ("-" :> 45) @@ (":" :> 58)
    @@ ("[" :> 91) @@ ("]" :> 93) @@ ("_" :> 95) @@ ("{" :> 123) @@ ("}" :> 125)

Digits36 ==
    <<"0", "1", "2", "3", "4", "5", "6", "7", "8", "9", "a", "b", "c", "d",
      "e", "f", "g", "h", "i", "j", "k", "l", "m", "n", "o", "p", "q", "r",
      "s", "t", "u", "v", "w", "x", "y", "z">>

\* decimal numeral of a natural number (String(n))
RECURSIVE Numeral(_)
Numeral(n) ==
    IF n < 10 THEN <<Digits36[n + 1]>>
    ELSE Numeral(n \div 10) \o <<Digits36[(n % 10) + 1]>>

RECURSIVE Concat(_)
Concat(seqs) ==
    IF seqs = <<>> THEN <<>> ELSE Head(seqs) \o Concat(Tail(seqs))

Quote(str) == <<"\"">> \o str \o <<"\"">>

\* JSON.stringify of one message {role, content}
MessageJson(m) ==
    Concat(<< <<"{">>, Quote(<<"r","o","l","e">>), <<":">>, Quote(m.role),
              <<",">>, Quote(<<"c","o","n","t","e","n","t">>), <<":">>,
              Quote(m.content), <<"}">> >>)

RECURSIVE MessagesJson(_)
MessagesJson(messages) ==
    IF messages = <<>> THEN <<>>
    ELSE IF Len(messages) = 1 THEN MessageJson(messages[1])
    ELSE MessageJson(Head(messages)) \o <<",">> \o MessagesJson(Tail(messages))

\* contexts: undefined, the empty object, and an object with a code field;
\* JSON.stringify drops a property whose value is undefined
ContextUndefined == [kind |-> "undefined"]
ContextEmpty == [kind |-> "object", code |-> <<>>]
ContextCode == [kind |-> "object", code |-> <<"x">>]

ContextJson(context) ==
    IF context.code = <<>> THEN <<"{", "}">>
    ELSE Concat(<< <<"{">>, Quote(<<"c","o","d","e">>), <<":">>,
                   Quote(context.code), <<"}">> >>)

\* JSON.stringify({ messages, context })
RequestJson(messages, context) ==
    Concat(<< <<"{">>, Quote(<<"m","e","s","s","a","g","e","s">>), <<":", "[">>,
              MessagesJson(messages), <<"]">>,
              IF context.kind = "undefined" THEN <<>>
              ELSE <<",">> \o Quote(<<"c","o","n","t","e","x","t">>) \o <<":">>
                   \o ContextJson(context),
              <<"}">> >>)

\* A 32-bit integer as two 16-bit halves [hi, lo] of its two's complement.
Half == 65536

\* hash = ((hash << 5) - hash) + char; hash = hash & hash
\* i.e. 31 * hash + char truncated to 32 bits
HashStep(h, code) ==
    LET low == 31 * h.lo + code
    IN  [lo |-> low % Half, hi |-> (31 * h.hi + (low \div Half)) % Half]

\* the loop from index i on; hash is a 32-bit value at every iteration
RECURSIVE HashFrom(_, _, _)
HashFrom(h, content, i) ==
    IF h.lo \in 0..(Half - 1) /\ i <= Len(content)
    THEN HashFrom(HashStep(h, CharCode[content[i]]), content, i + 1)
    ELSE h

HashOf(content) == HashFrom([hi |-> 0, lo |-> 0], content, 1)

IsNegative(h) == h.hi >= Half \div 2

\* the absolute value of the signed 32-bit integer, as unsigned halves
Magnitude(h) ==
    IF IsNegative(h)
    THEN [lo |-> (Half - h.lo) % Half,
          hi |-> (Half - 1 - h.hi + (IF h.lo = 0 THEN 1 ELSE 0)) % Half]
    ELSE h

\* Number.prototype.toString(36) of the magnitude, by long division
RECURSIVE Base36(_)
Base36(u) ==
    LET rest == (u.hi % 36) * Half + u.lo
        quotient == [hi |-> u.hi \div 36, lo |-> rest \div 36]
        digit == <<Digits36[(rest % 36) + 1]>>
    IN  IF quotient.hi = 0 /\ quotient.lo = 0 THEN digit
        ELSE Base36(quotient) \o digit

ToString36(h) == (IF IsNegative(h) THEN <<"-">> ELSE <<>>) \o Base36(Magnitude(h))

\* a key derivation that also mixes in the request counter
generateCacheKey_withCounter(messages, context) ==
    <<"c","l","a","u","d","e","_">>
        \o ToString36(HashOf(RequestJson(messages, context) \o Numeral(totalRequests)))

generateCacheKey(messages, context) ==
    <<"c","l","a","u","d","e","_">> \o ToString36(HashOf(RequestJson(messages, context)))

UserMessage(query) == [role |-> <<"u","s","e","r">>, content |-> query]
AssistantMessage(text) ==
    [role |-> <<"a","s","s","i","s","t","a","n","t">>, content |-> text]

\* String.prototype.includes
Includes(str, sub) ==
    \E i \in 1 .. (Len(str) - Len(sub) + 1) : SubSeq(str, i, i + Len(sub) - 1) = sub

\* RegExp /a.*b/ on a string without line breaks
IncludesThen(str, a, b) ==
    \E i \in 1 .. (Len(str) - Len(a) + 1) :
        /\ SubSeq(str, i, i + Len(a) - 1) = a
        /\ Includes(SubSeq(str, i + Len(a), Len(str)), b)

NoCategory == <<>>

\* the category of the first pattern that matches the query (queries here
\* are lower case, so the i flag changes nothing)
Category(query) ==
    IF IncludesThen(query, <<"f","i","x">>, <<"e","r","r","o","r">>)
        THEN <<"e","r","r","o","r","-","f","i","x">>
    ELSE IF IncludesThen(query, <<"e","x","p","l","a","i","n">>, <<"c","o","d","e">>)
        THEN <<"c","o","d","e","-","e","x","p","l","a","n","a","t","i","o","n">>
    ELSE IF IncludesThen(query, <<"a","d","d">>, <<"f","e","a","t","u","r","e">>)
        THEN <<"f","e","a","t","u","r","e","-","a","d","d","i","t","i","o","n">>
    ELSE IF Includes(query, <<"r","e","f","a","c","t","o","r">>)
        THEN <<"r","e","f","a","c","t","o","r","i","n","g">>
    ELSE IF Includes(query, <<"o","p","t","i","m","i","z","e">>)
        THEN <<"o","p","t","i","m","i","z","a","t","i","o","n">>
    ELSE IF Includes(query, <<"t","e","s","t">>)
        THEN <<"t","e","s","t","i","n","g">>
    ELSE NoCategory

(***************************************************************************)
(* Response cache (ClaudeAPI): the two tiers and the operations            *)
(***************************************************************************)
NoEntry == [key |-> <<>>]
NoResponse == [content |-> 0]

\* Map.prototype.has / get / set / delete on a Map kept as the sequence of its
\* entries in insertion order; set on a present key keeps its position
MapIndex(map, key) ==
    IF \E i \in 1..Len(map) : map[i].key = key
    THEN CHOOSE i \in 1..Len(map) : map[i].key = key
    ELSE 0

MapHas(map, key) == MapIndex(map, key) # 0

MapGet(map, key) == map[MapIndex(map, key)]

MapSet(map, key, entry) ==
    IF MapHas(map, key)
    THEN [map EXCEPT ![MapIndex(map, key)] = entry]
    ELSE Append(map, entry)

MapDelete(map, key) ==
    IF MapHas(map, key)
    THEN LET i == MapIndex(map, key)
         IN  SubSeq(map, 1, i - 1) \o SubSeq(map, i + 1, Len(map))
    ELSE map

\* the persistent store 'responses', keyPath 'key': a set of entries
DbGet(db, key) ==
    IF \E e \in db : e.key = key THEN CHOOSE e \in db : e.key = key ELSE NoEntry

DbPut(db, entry) == {e \in db : e.key # entry.key} \cup {entry}

\* this.persistentCache is set
PersistentSet(c) == c.dbState \in {"open", "closed"}

\* persistentCache.transaction(...) on a closed connection throws; inside the
\* promise executor the throw rejects the promise
Thrown == [thrown |-> "InvalidStateError"]

getPersistentCacheEntry(c, key) ==
    IF ~PersistentSet(c) THEN NoEntry
    ELSE IF c.dbState = "closed" THEN Thrown
    ELSE IF c.dbFaulty THEN NoEntry
    ELSE DbGet(c.db, key)

updatePersistentCacheHits(c, key, hits) ==
    IF c.dbState # "open" \/ c.dbFaulty \/ DbGet(c.db, key) = NoEntry THEN c.db
    ELSE DbPut(c.db, [DbGet(c.db, key) EXCEPT !.hits = hits])

\* the first memory entry whose key includes the category of the query
findSimilarCacheEntry(c, query) ==
    LET category == Category(query)
        matches == {i \in 1..Len(c.mem) : Includes(c.mem[i].key, category)}
    IN  IF category = NoCategory \/ matches = {} THEN NoEntry
        ELSE c.mem[CHOOSE i \in matches : \A j \in matches : i <= j]

\* the tiers in the order checkCache consults them
TierMemory == <<"memory">>
TierPersistent == <<"persistent">>
TierFuzzy == <<"fuzzy">>

\* the persistent tier is read only when persistentCache is set
PersistentConsulted(c) == IF PersistentSet(c) THEN TierPersistent ELSE <<>>

\* checkCache reading the persistent tier before the memory tier
checkCacheOp_persistentFirst(c, query, context) ==
    LET cacheKey == generateCacheKey(<<UserMessage(query)>>, context)
        counted == [c EXCEPT !.totalRequests = @ + 1]
        hit == [counted EXCEPT !.cacheHits = @ + 1]
        stored == getPersistentCacheEntry(c, cacheKey)
        similar == findSimilarCacheEntry(c, query)
    IN  IF stored = Thrown
        THEN [c |-> counted, response |-> NoResponse, tier |-> "rejected",
              key |-> cacheKey, consulted |-> PersistentConsulted(c)]
        ELSE IF stored # NoEntry
        THEN LET entry == [stored EXCEPT !.hits = @ + 1]
             IN  [c |-> [hit EXCEPT !.mem = MapSet(c.mem, cacheKey, entry),
                                    !.db = updatePersistentCacheHits(c, cacheKey, entry.hits)],
                  response |-> entry.response, tier |-> "persistent", key |-> cacheKey,
                  consulted |-> PersistentConsulted(c)]
        ELSE IF MapHas(c.mem, cacheKey)
        THEN LET entry == [MapGet(c.mem, cacheKey) EXCEPT !.hits = @ + 1]
             IN  [c |-> [hit EXCEPT !.mem = MapSet(c.mem, cacheKey, entry)],
                  response |-> entry.response, tier |-> "memory", key |-> cacheKey,
                  consulted |-> PersistentConsulted(c) \o TierMemory]
        ELSE IF similar # NoEntry
        THEN [c |-> hit, response |-> similar.response, tier |-> "semantic",
              key |-> cacheKey,
              consulted |-> PersistentConsulted(c) \o TierMemory \o TierFuzzy]
        ELSE [c |-> counted, response |-> NoResponse, tier |-> "miss", key |-> cacheKey,
              consulted |-> PersistentConsulted(c) \o TierMemory \o TierFuzzy]

\* checkCache(query, context) in cache state c: the state afterwards, the
\* response returned (NoResponse for null), the tier that answered and the
\* tiers consulted, in order
checkCacheOp(c, query, context) ==
    LET cacheKey == generateCacheKey(<<UserMessage(query)>>, context)
        counted == [c EXCEPT !.totalRequests = @ + 1]
        hit == [counted EXCEPT !.cacheHits = @ + 1]
        stored == getPersistentCacheEntry(c, cacheKey)
        similar == findSimilarCacheEntry(c, query)
    IN  IF MapHas(c.mem, cacheKey)
        THEN LET entry == [MapGet(c.mem, cacheKey) EXCEPT !.hits = @ + 1]
             IN  [c |-> [hit EXCEPT !.mem = MapSet(c.mem, cacheKey, entry)],
                  response |-> entry.response, tier |-> "memory", key |-> cacheKey,
                  consulted |-> TierMemory]
        ELSE IF stored = Thrown
        THEN [c |-> counted, response |-> NoResponse, tier |-> "rejected",
              key |-> cacheKey, consulted |-> TierMemory \o PersistentConsulted(c)]
        ELSE IF stored # NoEntry
        THEN LET entry == [stored EXCEPT !.hits = @ + 1]
             IN  [c |-> [hit EXCEPT !.mem = MapSet(c.mem, cacheKey, entry),
                                    !.db = updatePersistentCacheHits(c, cacheKey, entry.hits)],
                  response |-> entry.response, tier |-> "persistent", key |-> cacheKey,
                  consulted |-> TierMemory \o PersistentConsulted(c)]
        ELSE IF similar # NoEntry
        THEN [c |-> hit, response |-> similar.response, tier |-> "semantic",
              key |-> cacheKey,
              consulted |-> TierMemory \o PersistentConsulted(c) \o TierFuzzy]
        ELSE [c |-> counted, response |-> NoResponse, tier |-> "miss", key |-> cacheKey,
              consulted |-> TierMemory \o PersistentConsulted(c) \o TierFuzzy]

\* cacheResponse evicting the least-used entry instead of the first-inserted
cacheResponse_evictLeastHit(c, key, response) ==
    LET entry == [key |-> key, response |-> response, hits |-> 0]
        set == MapSet(c.mem, key, entry)
        least == CHOOSE i \in 1..Len(set) :
                    \A j \in 1..Len(set) :
                        set[i].hits < set[j].hits \/ (set[i].hits = set[j].hits /\ i <= j)
        mem == IF Len(set) > maxMemoryCacheSize
               THEN MapDelete(set, set[least].key)
               ELSE set
    IN  [c EXCEPT !.mem = mem,
                  !.db = IF c.dbState = "open" /\ ~c.dbFaulty
                         THEN DbPut(c.db, entry) ELSE c.db]

cacheResponse(c, key, response) ==
    LET entry == [key |-> key, response |-> response, hits |-> 0]
        set == MapSet(c.mem, key, entry)
        mem == IF Len(set) > maxMemoryCacheSize
               THEN MapDelete(set, set[1].key)
               ELSE set
    IN  [c EXCEPT !.mem = mem,
                  !.db = IF c.dbState = "open" /\ ~c.dbFaulty
                         THEN DbPut(c.db, entry) ELSE c.db]

\* sendMessage(messages, context) when the network call, if one is made, has
\* the outcome networkOk and would return the response 'fresh'
sendMessageOp(c, messages, context, networkOk, fresh) ==
    LET cacheKey == generateCacheKey(messages, context)
        cached == checkCacheOp(c, messages[Len(messages)].content, context)
    IN  IF cached.tier = "rejected"
        THEN [c |-> cached.c, response |-> NoResponse, outcome |-> "rejected",
              network |-> FALSE, key |-> cacheKey, tier |-> cached.tier,
              lookup |-> cached.key, consulted |-> cached.consulted]
        ELSE IF cached.tier # "miss"
        THEN [c |-> cached.c, response |-> cached.response, outcome |-> "hit",
              network |-> FALSE, key |-> cacheKey, tier |-> cached.tier,
              lookup |-> cached.key, consulted |-> cached.consulted]
        ELSE IF networkOk
        THEN [c |-> cacheResponse(cached.c, cacheKey, fresh), response |-> fresh,
              outcome |-> "stored", network |-> TRUE, key |-> cacheKey,
              tier |-> "miss", lookup |-> cached.key, consulted |-> cached.consulted]
        ELSE [c |-> cached.c, response |-> NoResponse, outcome |-> "fallback",
              network |-> TRUE, key |-> cacheKey, tier |-> "miss",
              lookup |-> cached.key, consulted |-> cached.consulted]

\* String comparison of IndexedDB keys: by code units
RECURSIVE StrLess(_, _)
StrLess(a, b) ==
    IF a = <<>> THEN b # <<>>
    ELSE IF b = <<>> THEN FALSE
    ELSE IF Head(a) = Head(b) THEN StrLess(Tail(a), Tail(b))
    ELSE CharCode[Head(a)] < CharCode[Head(b)]

\* order of index('hits').openCursor(null, 'prev'): hits descending, equal
\* hits by key descending
CursorBefore(a, b) ==
    a.hits > b.hits \/ (a.hits = b.hits /\ StrLess(b.key, a.key))

RECURSIVE LoadTop(_, _, _)
LoadTop(mem, db, count) ==
    IF db = {} \/ count >= topCacheEntries THEN mem
    ELSE LET entry == CHOOSE e \in db : \A f \in db \ {e} : CursorBefore(e, f)
         IN  LoadTop(MapSet(mem, entry.key, entry), db \ {entry}, count + 1)

loadCacheToMemory(c) ==
    IF c.dbState # "open" THEN c ELSE [c EXCEPT !.mem = LoadTop(c.mem, c.db, 0)]

CacheState ==
    [mem |-> memoryCache, db |-> persistentDb, dbState |-> dbState,
     dbFaulty |-> dbFaulty, totalRequests |-> totalRequests,
     cacheHits |-> cacheHits]

SetCacheState(c) ==
    /\ memoryCache' = c.mem
    /\ persistentDb' = c.db
    /\ dbState' = c.dbState
    /\ dbFaulty' = c.dbFaulty
    /\ totalRequests' = c.totalRequests
    /\ cacheHits' = c.cacheHits

CacheInit ==
    /\ SnapIdle
    /\ QueueIdle
    /\ EditorIdle
    /\ PassIdle
    /\ memoryCache = <<>>
    /\ persistentDb = {}
    /\ dbState = "opening"
    /\ dbFaulty = FALSE
    /\ totalRequests = 0
    /\ cacheHits = 0
    /\ netCalls = 0
    /\ lastC = [op |-> "init"]
    /\ prevC = [op |-> "init"]
    /\ cOps = 0
    /\ cFill \in {0, maxMemoryCacheSize}

\* the queries the user types: two numerals and a query the fuzzy tier
\* classifies
Queries ==
    {Numeral(1), Numeral(maxMemoryCacheSize + 1), <<"t","e","s","t">>}

\* the message lists handed to sendMessage: a single user message, or a
\* conversation that ends with a user message
MessageLists ==
    {<<UserMessage(Numeral(1))>>,
     <<UserMessage(Numeral(maxMemoryCacheSize + 1))>>,
     <<UserMessage(Numeral(1)), AssistantMessage(<<"o","k">>),
       UserMessage(Numeral(1))>>}

\* the contexts the chat passes: {} and, in auto mode, an object with code
Contexts == {ContextEmpty, ContextCode}

SendRecord(messages, context, r) ==
    [op |-> "sendMessage", messages |-> messages, context |-> context,
     outcome |-> r.outcome, network |-> r.network, key |-> r.key,
     tier |-> r.tier, response |-> r.response, lookup |-> r.lookup,
     consulted |-> r.consulted]

\* indexedDB.open succeeds: request.onsuccess, then loadCacheToMemory
dbOpens ==
    /\ UNCHANGED <<snapVars, queueVars, editorVars, passVars>>
    /\ dbState = "opening"
    /\ SetCacheState(loadCacheToMemory([CacheState EXCEPT !.dbState = "open"]))
    /\ UNCHANGED <<netCalls, lastC, prevC, cOps, cFill>>

\* indexedDB.open fails: request.onerror, persistentCache stays null
dbOpenFails ==
    /\ UNCHANGED <<snapVars, queueVars, editorVars, passVars>>
    /\ dbState = "opening"
    /\ cFill = 0
    /\ cOps < MaxCacheOps
    /\ dbState' = "failed"
    /\ UNCHANGED <<memoryCache, persistentDb, dbFaulty, totalRequests, cacheHits,
                   netCalls, lastC, prevC, cOps, cFill>>

\* the persistent store starts failing: either its requests fail (their
\* onerror fires) or the browser closes the connection, after which
\* transaction() throws
dbFault ==
    /\ UNCHANGED <<snapVars, queueVars, editorVars, passVars>>
    /\ cFill = 0
    /\ cOps < MaxCacheOps
    /\ dbState = "open"
    /\ ~dbFaulty
    /\ \/ dbFaulty' = TRUE /\ UNCHANGED dbState
       \/ dbState' = "closed" /\ UNCHANGED dbFaulty
    /\ UNCHANGED <<memoryCache, persistentDb, totalRequests, cacheHits,
                   netCalls, lastC, prevC, cOps, cFill>>

\* initial fill: sendMessage of a new single user message, answered by the
\* network
cFillSend ==
    /\ UNCHANGED <<snapVars, queueVars, editorVars, passVars>>
    /\ cFill > 0
    /\ dbState = "open"
    /\ \E messages \in {<<UserMessage(Numeral(netCalls + 1))>>} :
       \E r \in {sendMessageOp(CacheState, messages, ContextEmpty, TRUE,
                               [content |-> netCalls + 1])} :
           /\ SetCacheState(r.c)
           /\ lastC' = SendRecord(messages, ContextEmpty, r)
           /\ netCalls' = IF r.network THEN netCalls + 1 ELSE netCalls
    /\ prevC' = lastC
    /\ cFill' = cFill - 1
    /\ UNCHANGED cOps

sendMessage ==
    /\ UNCHANGED <<snapVars, queueVars, editorVars, passVars>>
    /\ cFill = 0
    /\ cOps < MaxCacheOps
    /\ \E messages \in MessageLists, context \in Contexts, networkOk \in BOOLEAN :
        \E r \in {sendMessageOp(CacheState, messages, context, networkOk,
                                [content |-> netCalls + 1])} :
            /\ SetCacheState(r.c)
            /\ lastC' = SendRecord(messages, context, r)
            /\ netCalls' = IF r.network THEN netCalls + 1 ELSE netCalls
    /\ prevC' = lastC
    /\ cOps' = cOps + 1
    /\ UNCHANGED cFill

checkCache ==
    /\ UNCHANGED <<snapVars, queueVars, editorVars, passVars>>
    /\ cFill = 0
    /\ cOps < MaxCacheOps
    /\ \E query \in Queries, context \in Contexts :
        \E r \in {checkCacheOp(CacheState, query, context)} :
            /\ SetCacheState(r.c)
            /\ lastC' = [op |-> "checkCache", query |-> query, context |-> context,
                         tier |-> r.tier, key |-> r.key, response |-> r.response,
                         lookup |-> r.key, consulted |-> r.consulted]
    /\ prevC' = lastC
    /\ cOps' = cOps + 1
    /\ UNCHANGED <<netCalls, cFill>>

\* clearCache: on a closed connection transaction() throws after the memory
\* tier was cleared and before the counters are reset
clearCache ==
    /\ UNCHANGED <<snapVars, queueVars, editorVars, passVars>>
    /\ cFill = 0
    /\ cOps < MaxCacheOps
    /\ memoryCache' = <<>>
    /\ persistentDb' = IF dbState = "open" /\ ~dbFaulty THEN {} ELSE persistentDb
    /\ cacheHits' = IF dbState = "closed" THEN cacheHits ELSE 0
    /\ totalRequests' = IF dbState = "closed" THEN totalRequests ELSE 0
    /\ lastC' = [op |-> "clearCache"]
    /\ prevC' = lastC
    /\ cOps' = cOps + 1
    /\ UNCHANGED <<dbState, dbFaulty, netCalls, cFill>>

\* the page is loaded again: new ClaudeAPI(), the persistent store survives
reloadPage ==
    /\ UNCHANGED <<snapVars, queueVars, editorVars, passVars>>
    /\ cFill = 0
    /\ cOps < MaxCacheOps
    /\ memoryCache' = <<>>
    /\ totalRequests' = 0
    /\ cacheHits' = 0
    /\ dbState' = "opening"
    /\ lastC' = [op |-> "constructor"]
    /\ prevC' = lastC
    /\ cOps' = cOps + 1
    /\ UNCHANGED <<persistentDb, dbFaulty, netCalls, cFill>>

CacheNext ==
    \/ dbOpens
    \/ dbOpenFails
    \/ dbFault
    \/ cFillSend
    \/ sendMessage
    \/ checkCache
    \/ clearCache
    \/ reloadPage

CacheSpec == CacheInit /\ [][CacheNext]_vars

(***************************************************************************)
(* The chat: sendMessage through the service worker                        *)
(***************************************************************************)
\* content of the worker's reply "I'm currently offline, but your message has
\* been saved ..." (the replies of the upstream are numbered from 1)
OfflineContent == -1

\* what fetch('/api/claude') meets upstream: a reply numbered n, a reply with
\* an HTTP error status, a reply whose body has an error member, and a
\* network failure (fetch rejects)
UpstreamOutcomes(n) ==
    {[rejects |-> FALSE, ok |-> TRUE, error |-> FALSE, content |-> n],
     [rejects |-> FALSE, ok |-> FALSE, error |-> FALSE, content |-> 0],
     [rejects |-> FALSE, ok |-> TRUE, error |-> TRUE, content |-> 0],
     [rejects |-> TRUE, ok |-> FALSE, error |-> FALSE, content |-> 0]}

\* the response handleApiRequest hands to the page: the upstream response,
\* or the synthetic offline reply with status 200 when the fetch rejects
handleApiRequest(upstream) ==
    IF upstream.rejects
    THEN [rejects |-> FALSE, ok |-> TRUE, error |-> FALSE, content |-> OfflineContent]
    ELSE upstream

\* sendMessage reaches cacheResponse: the fetch resolves, response.ok is set
\* and the body has no error member
ResponseAccepted(response) == ~response.rejects /\ response.ok /\ ~response.error

\* the message lists of the chat: an unclassified query, a query of the
\* category 'testing' and one of the category 'refactoring'
ChatMessageLists ==
    {<<UserMessage(Numeral(1))>>,
     <<UserMessage(<<"t","e","s","t">>)>>,
     <<UserMessage(<<"r","e","f","a","c","t","o","r">>)>>}

ChatInit ==
    /\ CacheInit
    /\ cFill = 0

\* sendMessage(messages, {}) of the chat, each at a later clock reading than
\* the one before.  When the page is controlled by the service worker its
\* fetch runs through handleApiRequest: a rejected fetch is admitted to the
\* offline queue and answered with the offline reply, an ok response starts a
\* replay pass.
chatSend ==
    /\ UNCHANGED <<snapVars, editorVars, passVars>>
    /\ cOps < MaxCacheOps
    /\ \E messages \in ChatMessageLists, controlled \in BOOLEAN,
          upstream \in UpstreamOutcomes(netCalls + 1),
          failing \in ReplayOutcomes(queueStore) :
       \E response \in {IF controlled THEN handleApiRequest(upstream) ELSE upstream} :
       \E r \in {sendMessageOp(CacheState, messages, ContextEmpty,
                               ResponseAccepted(response),
                               [content |-> response.content])} :
           /\ SetCacheState(r.c)
           /\ lastC' = SendRecord(messages, ContextEmpty, r)
           /\ netCalls' = IF r.network THEN netCalls + 1 ELSE netCalls
           /\ reqCount' = IF r.network THEN reqCount + 1 ELSE reqCount
           /\ IF r.network /\ controlled /\ upstream.rejects
              THEN LET data == RequestData(reqCount + 1, swClock + 1)
                   IN  /\ queueStore' = addToOfflineQueueOp(queueStore, data, swClock + 1)
                       /\ lastQ' = [op |-> "addToOfflineQueue", data |-> data,
                                    message |-> queueUpdatedMessage(queueStore),
                                    response |-> [mode |-> "offline", queued |-> TRUE]]
                       /\ qpre' = queueStore
                       /\ UNCHANGED replayed
              ELSE IF r.network /\ controlled /\ upstream.ok
              THEN ReplayPass("fetch", failing)
              ELSE UNCHANGED <<queueStore, lastQ, qpre, replayed>>
    /\ swClock' = swClock + 1
    /\ prevC' = lastC
    /\ cOps' = cOps + 1
    /\ UNCHANGED <<failed, qOps, qTicks, qFill, cFill>>

ChatNext ==
    \/ dbOpens
    \/ chatSend
    \/ checkCache

ChatSpec == ChatInit /\ [][ChatNext]_vars


(***************************************************************************)
(* Snapshot Manager: properties                                            *)
(***************************************************************************)
NonMilestones(store) == {s \in store : ~s.isMilestone}
AutoSaves(store) == {s \in store : s.autoSave}
Milestones(store) == {s \in store : s.isMilestone}
Working(store) == {s \in store : s.status = "working"}

RestoreDone == lastOp.op = "restoreSnapshot" /\ lastOp.error = ""

\* C1: after every saveSnapshot call the number of stored snapshots that are
\* not milestones is at most maxSnapshots.
C1_NonMilestoneCap ==
    lastOp.op = "saveSnapshot" =>
        Cardinality(NonMilestones(snapshots)) <= maxSnapshots

\* C2: after every saveSnapshot call the number of stored snapshots with
\* autoSave = true is at most maxAutoSaves.
C2_AutoSaveCap ==
    lastOp.op = "saveSnapshot" =>
        Cardinality(AutoSaves(snapshots)) <= maxAutoSaves

\* C3: saveSnapshot never deletes a milestone: every milestone stored when
\* the call began is still stored when it returns.
C3_MilestonesSurviveSave ==
    lastOp.op = "saveSnapshot" => Milestones(pre) \subseteq snapshots

\* C7: getLastWorkingSnapshot returns a stored snapshot of status working
\* whose timestamp is the maximum over the working snapshots, and returns
\* null exactly when no stored snapshot has status working.
C7_LastWorkingIsNewestWorking ==
    lastOp.op = "getLastWorkingSnapshot" =>
        IF Working(snapshots) = {}
        THEN lastOp.result = NoSnapshot
        ELSE /\ lastOp.result \in Working(snapshots)
             /\ \A s \in Working(snapshots) :
                    s.timestamp <= lastOp.result.timestamp

\* C7 witness: the lookup has returned a working snapshot although a newer
\* snapshot that is not working and an older working snapshot are stored.
C7_Witness ==
    /\ lastOp.op = "getLastWorkingSnapshot"
    /\ lastOp.result # NoSnapshot
    /\ \E s \in snapshots :
           s.status # "working" /\ s.timestamp > lastOp.result.timestamp
    /\ \E s \in Working(snapshots) : s.timestamp < lastOp.result.timestamp

Excess(store) ==
    IF Cardinality(NonMilestones(store)) > maxSnapshots
    THEN Cardinality(NonMilestones(store)) - maxSnapshots
    ELSE 0

Admitted == lastQ.op = "addToOfflineQueue"

QueuedRequests(store) == {i.data.req : i \in store}

OldestItem(store) == CHOOSE i \in store : \A j \in store : i.id <= j.id

\* C4: the offline queue never stores more than MAX_QUEUE_SIZE items.
C4_QueueBounded == Cardinality(queueStore) <= MAX_QUEUE_SIZE

\* C5: an admission into a queue that holds MAX_QUEUE_SIZE items removes
\* exactly the oldest item and stores the new one; after requests 1..11 have
\* been admitted in order with no replay or clear, the queue holds 2..11.
C5_DropOldest ==
    /\ (Admitted /\ Cardinality(qpre) = MAX_QUEUE_SIZE /\ ~HasKey(qpre, swClock)) =>
           /\ Cardinality(queueStore) = MAX_QUEUE_SIZE
           /\ OldestItem(qpre) \notin queueStore
           /\ qpre \ {OldestItem(qpre)} \subseteq queueStore
           /\ lastQ.data.req \in QueuedRequests(queueStore)
    /\ (Admitted /\ lastQ.data.req = MAX_QUEUE_SIZE + 1 /\ qOps = 1) =>
           QueuedRequests(queueStore) = 2 .. (MAX_QUEUE_SIZE + 1)

\* C6: once the admission of a failed request has completed, the request is
\* stored in the queue as an item of its own.
C6_FailedRequestStored ==
    Admitted =>
        \E i \in queueStore :
            /\ i.data = lastQ.data
            /\ \A j \in queueStore : j.data = i.data => j = i

(***************************************************************************)
(* Response cache: properties                                              *)
(***************************************************************************)
\* C9: when a sendMessage misses the cache, gets a successful network
\* response and stores it, the next sendMessage with the same messages and
\* context is answered from the cache without a network call, and the hit
\* counter of the stored entry is 1.
C9_RepeatIsCacheHit ==
    (/\ prevC.op = "sendMessage" /\ prevC.outcome = "stored"
     /\ lastC.op = "sendMessage"
     /\ lastC.messages = prevC.messages /\ lastC.context = prevC.context) =>
        /\ lastC.outcome = "hit"
        /\ ~lastC.network
        /\ lastC.response = prevC.response
        /\ MapHas(memoryCache, prevC.key)
        /\ MapGet(memoryCache, prevC.key).hits = 1

\* C10: the memory tier never holds more than maxMemoryCacheSize entries.
C10_MemoryTierBounded == Len(memoryCache) <= maxMemoryCacheSize

\* a sendMessage step that called the network and stored the response
StoredStep ==
    /\ netCalls' = netCalls + 1
    /\ lastC'.op = "sendMessage"
    /\ lastC'.outcome = "stored"

\* C11: an insertion through cacheResponse of a key that is not in the memory
\* tier appends the entry with hits = 0; when the tier already holds
\* maxMemoryCacheSize entries it leaves exactly maxMemoryCacheSize of them and
\* the one removed is the first-inserted entry, whatever the hit counters are.
C11_EvictsOldestInserted ==
    [][(StoredStep /\ ~MapHas(memoryCache, lastC'.key)) =>
          LET entry == [key |-> lastC'.key, response |-> lastC'.response, hits |-> 0]
          IN  IF Len(memoryCache) = maxMemoryCacheSize
              THEN /\ memoryCache' = Append(Tail(memoryCache), entry)
                   /\ Len(memoryCache') = maxMemoryCacheSize
                   /\ ~MapHas(memoryCache', memoryCache[1].key)
              ELSE Len(memoryCache) < maxMemoryCacheSize =>
                       memoryCache' = Append(memoryCache, entry)]_vars

\* C11 witness: the oldest-inserted entry of a full memory tier was hit in
\* memory, and the insertion that followed removed it all the same.
C11_Witness ==
    /\ lastC.op = "sendMessage" /\ lastC.outcome = "stored"
    /\ prevC.op = "checkCache" /\ prevC.tier = "memory"
    /\ Len(memoryCache) = maxMemoryCacheSize
    /\ ~MapHas(memoryCache, prevC.key)
    /\ MapHas(memoryCache, lastC.key)

\* a step that ran checkCache (directly or inside sendMessage)
LookupStep == totalRequests' = totalRequests + 1

InSeq(x, seq) == \E i \in 1..Len(seq) : seq[i] = x

\* C12: checkCache consults the tiers in the order memory, persistent, fuzzy
\* and stops at the first hit: a key present in the memory tier is answered
\* from memory with no read of the persistent store and no fuzzy scan; a key
\* found only in the persistent store is answered there with no fuzzy scan;
\* the fuzzy tier is consulted only when both exact tiers have missed, and
\* after them.
C12_TierOrder ==
    [][LookupStep =>
          LET inMemory == MapHas(memoryCache, lastC'.lookup)
              inStore == getPersistentCacheEntry(CacheState, lastC'.lookup)
                             \notin {NoEntry, Thrown}
          IN  /\ inMemory =>
                    /\ lastC'.tier = "memory"
                    /\ lastC'.consulted = TierMemory
                    /\ persistentDb' = persistentDb
              /\ (~inMemory /\ inStore) =>
                    /\ lastC'.tier = "persistent"
                    /\ lastC'.consulted = TierMemory \o TierPersistent
              /\ InSeq("fuzzy", lastC'.consulted) =>
                    /\ ~inMemory /\ ~inStore
                    /\ lastC'.consulted =
                           TierMemory \o PersistentConsulted(CacheState) \o TierFuzzy]_vars

\* C12 witness: a lookup of a key held by both exact tiers was answered by
\* the memory tier alone.
C12_Witness ==
    /\ lastC.op = "checkCache"
    /\ lastC.tier = "memory"
    /\ lastC.consulted = TierMemory
    /\ dbState = "open" /\ ~dbFaulty
    /\ DbGet(persistentDb, lastC.lookup) # NoEntry

\* the requests of a store, oldest first
InKeyOrder(store) == [k \in 1..Cardinality(store) |-> KeyOrder(store)[k].data]

\* C13: in a replay pass over two or more items in which the replay of the
\* oldest item fails, that item is still in the queue after the pass and
\* every item of the queue, the later ones included, was attempted, oldest
\* first.
C13_ReplayIndependent ==
    (/\ lastQ.op = "processOfflineQueue"
     /\ Cardinality(qpre) >= 2
     /\ lastQ.failing = {OldestItem(qpre).id}) =>
        /\ OldestItem(qpre) \in queueStore
        /\ lastQ.sent = InKeyOrder(qpre)

\* item i, stored before the step, was replayed with success in the step
ReplayedOk(i) ==
    /\ lastQ'.op = "processOfflineQueue"
    /\ InSeq(i.data, lastQ'.sent)
    /\ i.id \notin lastQ'.failing

\* item i was the oldest of a full queue at an admission
EvictedAtAdmission(i) ==
    /\ lastQ'.op = "addToOfflineQueue"
    /\ Cardinality(queueStore) >= MAX_QUEUE_SIZE
    /\ i = OldestItem(queueStore)

syncWhileOnline ==
    /\ UNCHANGED <<snapVars, cacheVars, editorVars, passVars>>
    /\ qFill = 0
    /\ failed = {}
    /\ ReplayPass("sync", {})
    /\ UNCHANGED <<swClock, failed, reqCount, qOps, qTicks, qFill>>

QueueLiveNext ==
    \/ QueueNext
    \/ syncWhileOnline

\* fairness: admissions in progress complete, and the replay trigger keeps
\* firing with the network reachable
QueueLiveSpec ==
    /\ QueueInit
    /\ [][QueueLiveNext]_vars
    /\ WF_vars(addToOfflineQueue)
    /\ WF_vars(qFillAdmit)
    /\ WF_vars(syncWhileOnline)

\* C15: under that fairness every queued request is eventually delivered and
\* removed, unless evicted or cleared before; as a behaviour admits finitely
\* many requests, a queue that holds items is eventually empty.
C15_EventuallyDelivered == (queueStore # {}) ~> (queueStore = {})

\* C19: restoreSnapshot(id) with an id that is not in the store fails with the
\* not-found error and leaves the store as it was: no backup snapshot is
\* written and none is evicted.
C19_RestoreMissingLeavesStore ==
    (lastOp.op = "restoreSnapshot" /\ lastOp.id \notin {s.id : s \in pre}) =>
        /\ lastOp.error = "Snapshot not found"
        /\ lastOp.result = NoSnapshot
        /\ snapshots = pre

C19_Witness ==
    /\ lastOp.op = "restoreSnapshot"
    /\ lastOp.id \notin {s.id : s \in pre}
    /\ Cardinality(pre) > maxSnapshots
    /\ lastOp.error = "Snapshot not found"

\* C16: importSnapshots is all-or-nothing: whenever importSnapshots(bundle)
\* fails, no snapshot of the bundle has been written to the store (the store
\* is what it was when the import began).
C16_FailedImportWritesNothing ==
    (lastOp.op = "importSnapshots" /\ lastOp.error # "") => snapshots = pre

\* what the round trip has to preserve of a snapshot: label, status, code and
\* the contents of the file map as the read operations return it
Content(s) ==
    [label |-> s.label, status |-> s.status, code |-> s.code,
     files |-> ReadRecord(s).files]

Copies(store, c) == Cardinality({s \in store : Content(s) = c})

C18_StoredRecordsImmutable ==
    [][/\ \A s \in snapshots : \A t \in snapshots' : t.id = s.id => t = s
       /\ \A t \in snapshots' : t.id \notin StoredIds => t.id \notin usedIds
       /\ \A t \in snapshots' : \A u \in snapshots' : t.id = u.id => t = u]_vars

C18_Witness ==
    /\ lastOp.op = "importSnapshots"
    /\ lastOp.imported > 0
    /\ pre \ snapshots # {}
    /\ snapshots \cap pre # {}
    /\ snapshots \ pre # {}

\* C20: a failure of the persistent tier (the database did not open, its
\* requests fail, or its connection is closed) is never surfaced by checkCache
\* or sendMessage as an error: the lookup ends as a hit or a miss, and a
\* sendMessage that found no hit has reached the network.
C20_PersistentFailureNotSurfaced ==
    (lastC.op \in {"checkCache", "sendMessage"} /\ (dbState # "open" \/ dbFaulty)) =>
        /\ lastC.tier \in {"memory", "persistent", "semantic", "miss"}
        /\ (lastC.op = "sendMessage" /\ lastC.tier = "miss") => lastC.network

\* the (messages, context) pair a cache operation derives its key from:
\* sendMessage hashes the pair it was given, checkCache the single user
\* message it builds from the query
KeyInput(rec) ==
    IF rec.op = "sendMessage"
    THEN [messages |-> rec.messages, context |-> rec.context]
    ELSE [messages |-> <<UserMessage(rec.query)>>, context |-> rec.context]

KeyOps == {"sendMessage", "checkCache"}

C23_HitsNeverDecrease ==
    [][/\ \A i \in 1..Len(memoryCache) :
              MapHas(memoryCache', memoryCache[i].key) =>
                  MapGet(memoryCache', memoryCache[i].key).hits >= memoryCache[i].hits
       /\ \A e \in persistentDb : \A f \in persistentDb' :
              f.key = e.key => f.hits >= e.hits
       /\ (LookupStep /\ lastC'.tier \in {"memory", "persistent"}) =>
              /\ MapHas(memoryCache, lastC'.lookup) =>
                     MapGet(memoryCache', lastC'.lookup).hits
                         = MapGet(memoryCache, lastC'.lookup).hits + 1
              /\ DbGet(persistentDb, lastC'.lookup) # NoEntry =>
                     DbGet(persistentDb', lastC'.lookup).hits
                         = DbGet(persistentDb, lastC'.lookup).hits + 1]_vars

\* C26: when the write of the item fails during admission (the item is not in
\* the queue afterwards), the response handed to the page does not say that
\* the request was queued.
C26_FailedAdmissionNotReported ==
    (Admitted /\ ~\E i \in queueStore : i.data = lastQ.data) =>
        ~lastQ.response.queued

OnlineSignalled ==
    \/ lastQ.op = "handleOnline"
    \/ lastQ.op = "processOfflineQueue" /\ lastQ.trigger = "online"

\* C25: every connectivity-restored signal the page handles starts a replay
\* pass in the worker, with Background Sync and with the message fallback.
C25_OnlineStartsReplay == OnlineSignalled => lastQ.op = "processOfflineQueue"

(***************************************************************************)
(* The editor page: properties                                             *)
(***************************************************************************)
\* C22: the backup a successful restore writes holds the code and the files
\* that were in the editor when the restore was asked for.
C22_BackupIsLiveState ==
    (lastE.op = "handleRestore" /\ lastOp.error = "") =>
        \E s \in snapshots :
            /\ s.id = lastOp.backupId
            /\ s.code = lastE.code
            /\ NewMap(s.files) = lastE.files

\* C28: after an uncaught failure that follows an edit, the crash backup
\* holds the code that was in the editor when it failed, and a load that
\* finds a crash backup offers it to the user.
C28_CrashBackupIsLatest ==
    /\ (lastE.op = "componentDidCatch" /\ lastE.code # INITIAL_CODE) =>
           /\ crashBackup # NoItem
           /\ JsonParse(crashBackup).code = lastE.code
    /\ (lastE.op = "initialize" /\ lastE.hadBackup) => lastE.offered

\* C30: a quick save whose write of the new record is rejected leaves the
\* stored snapshots as they were before the call.
C30_RejectedSaveLeavesStore ==
    (lastE.op = "handleQuickSave" /\ ~lastE.saved) => snapshots = pre

(***************************************************************************)
(* The chat: properties                                                    *)
(***************************************************************************)
\* the worker's offline reply and the reply of a send that fell back
FailureReplies == {[content |-> OfflineContent], NoResponse}

\* C24: no entry of the memory tier or of the persistent tier holds a reply
\* that was produced because the send failed.
C24_OnlyUpstreamRepliesCached ==
    /\ \A i \in 1..Len(memoryCache) : memoryCache[i].response \notin FailureReplies
    /\ \A e \in persistentDb : e.response \notin FailureReplies

\* the key belongs to a request of the chat whose query has the category
ProducedUnder(key, category) ==
    \E messages \in ChatMessageLists, context \in Contexts :
        /\ generateCacheKey(messages, context) = key
        /\ Category(messages[Len(messages)].content) = category

SameCategoryEntries(query) ==
    {i \in 1..Len(memoryCache) : ProducedUnder(memoryCache[i].key, Category(query))}

ExactMiss == lastC.op = "checkCache" /\ lastC.tier \in {"semantic", "miss"}

\* C27: a lookup that misses both exact tiers returns, for a classified
\* query, the first memory entry produced under the category of the query
\* (and never one of another category), and misses for an unclassified query.
C27_FuzzyTierByCategory ==
    /\ (ExactMiss /\ Category(lastC.query) # NoCategory
          /\ SameCategoryEntries(lastC.query) # {}) =>
           /\ lastC.tier = "semantic"
           /\ lastC.response =
                  memoryCache[CHOOSE i \in SameCategoryEntries(lastC.query) :
                                  \A j \in SameCategoryEntries(lastC.query) : i <= j].response
    /\ (ExactMiss /\ lastC.tier = "semantic") =>
           \E i \in SameCategoryEntries(lastC.query) :
               memoryCache[i].response = lastC.response
    /\ (ExactMiss /\ Category(lastC.query) = NoCategory) => lastC.tier = "miss"

====
